---- MODULE Spec2Model ----
(***************************************************************************)
(* A model of the QOI15 codec (Libraries/qoi15.hpp): the leaf components   *)
(* (BitShifter, RunLength, Differential, Table, Raw15bit, Chunker), the    *)
(* SpeedFirstRepository, and the QOI15Encoder / QOI15Decoder constructors, *)
(* one action per loop iteration.                                          *)
(***************************************************************************)
EXTENDS Integers, Sequences, FiniteSets, TLC

(***************************************************************************)
(* Bounds of the model.                                                    *)
(***************************************************************************)
\* longest input (in samples) fed to the encoder under Spec
MaxN == 4
\* largest run length tried on RunLength.Get / Set under SpecRL
MaxRun == 600
\* most operations applied to one repository under SpecRepo
MaxOps == 5
\* longest codeword stream, and largest output size, given to the decoder under SpecDec
MaxWords == 3
\* largest |current - previous| tried around each previous under SpecDiff
MaxDelta == 10
\* most runs of equal samples in one input under SpecRuns
MaxSegments == 3

(***************************************************************************)
(* Machine arithmetic: the C++ operators on unsigned values, bit by bit.   *)
(***************************************************************************)
RECURSIVE BitAnd(_, _)
BitAnd(x, y) ==
    IF x = 0 \/ y = 0 THEN 0
    ELSE (IF x % 2 = 1 /\ y % 2 = 1 THEN 1 ELSE 0) + 2 * BitAnd(x \div 2, y \div 2)

RECURSIVE BitOr(_, _)
BitOr(x, y) ==
    IF x = 0 THEN y
    ELSE IF y = 0 THEN x
    ELSE (IF x % 2 = 1 \/ y % 2 = 1 THEN 1 ELSE 0) + 2 * BitOr(x \div 2, y \div 2)

\* value & (~mask) for a non-negative value: the bits of value that mask leaves out
RECURSIVE BitAndNot(_, _)
BitAndNot(x, m) ==
    IF x = 0 THEN 0
    ELSE (IF x % 2 = 1 /\ m % 2 = 0 THEN 1 ELSE 0) + 2 * BitAndNot(x \div 2, m \div 2)

Shr(x, k) == x \div (2 ^ k)
Shl(x, k) == x * (2 ^ k)
U8(x) == x % 256
U16(x) == x % 65536
Abs(x) == IF x < 0 THEN -x ELSE x

(***************************************************************************)
(* BitShifter<shift>                                                       *)
(***************************************************************************)
BitShifter_Get(shift, value) == U16(Shr(value, shift))
BitShifter_Set(shift, value) == U16(Shl(value, shift))

(***************************************************************************)
(* RunLength<2, 3, 0x00, 0x07>                                             *)
(***************************************************************************)
RL_valueBit == 3
RL_header == 0
RL_mask == 7

RunLength_CheckHeader(value) == BitAndNot(value, RL_mask) = RL_header

\* Get that skips the zero digits
RunLength_Get_nozero(length) ==
    LET RECURSIVE G(_)
        G(l) == IF l = 0 THEN <<>>
                ELSE (IF BitAnd(l, RL_mask) = 0 THEN <<>>
                      ELSE <<BitOr(U8(BitAnd(l, RL_mask)), RL_header)>>)
                     \o G(Shr(l, RL_valueBit))
    IN G(length)

\* while (length != 0) { values.emplace_back((length & mask) | header); length >>= valueBit; }
RunLength_Get(length) ==
    LET RECURSIVE G(_)
        G(l) == IF l = 0 THEN <<>>
                ELSE <<BitOr(U8(BitAnd(l, RL_mask)), RL_header)>> \o G(Shr(l, RL_valueBit))
    IN G(length)

\* Set that never advances shift
RunLength_Set_noshift(values) ==
    LET RECURSIVE S(_, _, _)
        S(k, shift, length) ==
            IF k > Len(values) THEN length
            ELSE S(k + 1, shift, BitOr(length, Shl(BitAnd(values[k], RL_mask), shift)))
    IN S(1, 0, 0)

\* for (value : values) { length |= (value & mask) << shift; shift += valueBit; }
RunLength_Set(values) ==
    LET RECURSIVE S(_, _, _)
        S(k, shift, length) ==
            IF k > Len(values) THEN length
            ELSE S(k + 1, shift + RL_valueBit,
                   BitOr(length, Shl(BitAnd(values[k], RL_mask), shift)))
    IN S(1, 0, 0)

(***************************************************************************)
(* Differential<1, 4, 0x10, 0x0F>                                          *)
(***************************************************************************)
Diff_valueBit == 4
Diff_header == 16
Diff_mask == 15
Diff_MaxValue == 2 ^ (Diff_valueBit - 1)

Differential_CheckHeader(value) == BitAndNot(value, Diff_mask) = Diff_header
Differential_Sub(previous, current) == current - previous
\* IsValid with a strict bound
Differential_IsValid_strict(diff) == Abs(diff) < Diff_MaxValue /\ diff # 0
Differential_IsValid(diff) == Abs(diff) <= Diff_MaxValue /\ diff # 0
\* Get that biases both halves alike
Differential_Get_unbiased(diff) == BitOr(U8(diff + Diff_MaxValue), Diff_header)
Differential_Get(diff) ==
    LET value == U8(IF diff < 0 THEN diff + Diff_MaxValue ELSE diff + (Diff_MaxValue - 1))
    IN  BitOr(value, Diff_header)
\* Set that unbiases both halves alike
Differential_Set_symmetric(value) == BitAnd(value, Diff_mask) - Diff_MaxValue
Differential_Set(value) ==
    LET diff == BitAnd(value, Diff_mask)
    IN  IF diff < Diff_MaxValue THEN diff - Diff_MaxValue ELSE diff - (Diff_MaxValue - 1)
Differential_Add(previous, diff) == U16(previous + diff)

(***************************************************************************)
(* Table<2, 3, 0x08, 0x07>, hashBit = 1                                    *)
(***************************************************************************)
Table_valueBit == 3
Table_header == 8
Table_mask == 7
Table_hashBit == 1
Table_TableSize == 2 ^ Table_valueBit
Sentinel == 65535

\* ref_(TableSize, 0xFFFF)
Table_New == [h \in 0 .. (Table_TableSize - 1) |-> Sentinel]
\* CheckHeader testing only the header's own bit
Table_CheckHeader_loose(value) == BitAnd(value, Table_header) = Table_header
Table_CheckHeader(value) == BitAndNot(value, Table_mask) = Table_header
Table_Hash(value) == U8(BitAnd(Shr(value, Table_hashBit), Table_mask))
Table_Set(value) == BitAnd(value, Table_mask)
Table_Refer(ref, hash) == ref[hash]
Table_Insert(ref, hash, value) == [ref EXCEPT ![hash] = value]
\* Get naming the entry after the one hashed to
Table_Get_next(hash) == BitOr(Table_header, (hash + 1) % Table_TableSize)
Table_Get(hash) == BitOr(Table_header, hash)

(***************************************************************************)
(* Raw15bit                                                                *)
(***************************************************************************)
LiteralFlag == 32768
LiteralMask == 32767

\* Get without the literal flag
Raw15bit_Get_noflag(value) == value
Raw15bit_Get(value) == BitOr(LiteralFlag, value)
Raw15bit_Set(value) == BitAnd(LiteralMask, value)
Raw15bit_IsValid(value) == BitAnd(value, LiteralFlag) # 0

(***************************************************************************)
(* Chunker                                                                 *)
(***************************************************************************)
FieldMask == 31
FieldBits == 5

Chunker_Get(value) ==
    << U8(BitAnd(value, FieldMask)),
       U8(BitAnd(Shr(value, FieldBits), FieldMask)),
       U8(BitAnd(Shr(value, 2 * FieldBits), FieldMask)) >>
Chunker_Set(first, second, third) ==
    U16(BitOr(BitOr(first, Shl(second, FieldBits)), Shl(third, 2 * FieldBits)))

(***************************************************************************)
(* SpeedFirstRepository.  buffer_ holds the words written so far (its      *)
(* first counter_ elements); a write at an index >= maxSize is out of the  *)
(* vector's bounds and is recorded in oob.  kinds is an observer: for each *)
(* written word, what wrote it ("literal"), or for a packed word where     *)
(* each of its three fields came from ("sub" pushed, "pad" zero fill).     *)
(***************************************************************************)
Repo_New(maxSize) ==
    [buffer_ |-> <<>>, counter_ |-> 0, maxSize |-> maxSize,
     temp_ |-> <<>>, tempCounter_ |-> 0, oob |-> FALSE, kinds |-> <<>>]

\* buffer_[counter_++] = value
Repo_Write(r, value, kind) ==
    [r EXCEPT !.buffer_ = Append(@, value),
              !.counter_ = @ + 1,
              !.oob = @ \/ (r.counter_ >= r.maxSize),
              !.kinds = Append(@, kind)]

\* Set(const uint8_t value) that queues the value without counting it
Repo_SetSub_nocount(r, value) == [r EXCEPT !.temp_ = Append(@, value)]

\* Set(const uint8_t value)
Repo_SetSub(r, value) ==
    [r EXCEPT !.temp_ = Append(@, value), !.tempCounter_ = @ + 1]

\* Flush(), the loop: while (tempCounter_ >= 3) pack three and write
RECURSIVE Repo_FlushTriples(_, _)
Repo_FlushTriples(q, ite) ==
    IF q.tempCounter_ >= 3
    THEN Repo_FlushTriples(
             [Repo_Write(q, Chunker_Set(q.temp_[ite], q.temp_[ite + 1], q.temp_[ite + 2]),
                         <<"sub", "sub", "sub">>)
                EXCEPT !.tempCounter_ = @ - 3],
             ite + 3)
    ELSE <<q, ite>>

\* Flush() writing its padded word whenever tempCounter_ >= 0
Repo_FlushPartial_always(q, ite) ==
    [Repo_Write(q,
                Chunker_Set(IF 0 < q.tempCounter_ THEN q.temp_[ite] ELSE 0,
                            IF 1 < q.tempCounter_ THEN q.temp_[ite + 1] ELSE 0,
                            IF 2 < q.tempCounter_ THEN q.temp_[ite + 2] ELSE 0),
                [k \in 1 .. 3 |-> IF k - 1 < q.tempCounter_ THEN "sub" ELSE "pad"])
       EXCEPT !.tempCounter_ = 0, !.temp_ = <<>>]

\* Flush(), the rest: if (tempCounter_ > 0) zero-fill fst[3], write it; temp_.clear()
Repo_FlushPartial(q, ite) ==
    IF q.tempCounter_ > 0
    THEN [Repo_Write(q,
                     Chunker_Set(q.temp_[ite],
                                 IF 1 < q.tempCounter_ THEN q.temp_[ite + 1] ELSE 0,
                                 IF 2 < q.tempCounter_ THEN q.temp_[ite + 2] ELSE 0),
                     [k \in 1 .. 3 |-> IF k - 1 < q.tempCounter_ THEN "sub" ELSE "pad"])
            EXCEPT !.tempCounter_ = 0, !.temp_ = <<>>]
    ELSE [q EXCEPT !.temp_ = <<>>]

Repo_FlushFrom(t) == Repo_FlushPartial(t[1], t[2])

\* Flush()
Repo_Flush(r) == Repo_FlushFrom(Repo_FlushTriples(r, 1))

\* Set(const uint16_t value) that writes the literal without flushing first
Repo_SetWord_noflush(r, value) == Repo_Write(r, value, <<"literal">>)

\* Set(const uint16_t value)
Repo_SetWord(r, value) ==
    Repo_Write(IF r.tempCounter_ > 0 THEN Repo_Flush(r) ELSE r, value, <<"literal">>)

\* n > 0 calls of Set(const uint16_t value) in a row with the same value: the first
\* flushes what is pending, then n words are written at counter_ .. counter_ + n - 1
Repo_WriteTimes(f, value, n) ==
    [f EXCEPT !.buffer_ = @ \o [k \in 1 .. n |-> value],
              !.counter_ = @ + n,
              !.oob = @ \/ (f.counter_ + n - 1 >= f.maxSize),
              !.kinds = @ \o [k \in 1 .. n |-> <<"literal">>]]

Repo_SetWordTimes(r, value, n) ==
    Repo_WriteTimes(IF r.tempCounter_ > 0 THEN Repo_Flush(r) ELSE r, value, n)

Repo_GetSize(r) == r.counter_

RECURSIVE Repo_SetSubs(_, _)
Repo_SetSubs(r, values) ==
    IF values = <<>> THEN r ELSE Repo_SetSubs(Repo_SetSub(r, Head(values)), Tail(values))

(***************************************************************************)
(* State.                                                                  *)
(*   pc    where the program is: "enc" (encoder loop), "encoded" (encoder  *)
(*         constructed), "dec" (decoder loop), "done", "crashed" (an       *)
(*         out-of-bounds write ended the process), "repo" / "rl" / "df"    *)
(*         (the component-level specifications)                            *)
(*   enc   the QOI15Encoder constructor's locals and members               *)
(*   dec   the QOI15Decoder constructor's locals and members               *)
(*   repo  a stand-alone SpeedFirstRepository, hist the operations applied *)
(*   rl    a stand-alone RunLength: the length given, Get's list, Set's    *)
(*         result                                                          *)
(*   df    a stand-alone Differential: previous, current and the results   *)
(*         of Sub, IsValid, Get, Set and Add                               *)
(***************************************************************************)
VARIABLES pc, enc, dec, repo, hist, rl, df

vars == <<pc, enc, dec, repo, hist, rl, df>>

\* An out-of-bounds vector write is undefined behaviour: the process may die
\* at the write or run on with the word written past the end.
Outcomes(before, after, continuing) ==
    IF after.oob /\ after.counter_ # before.counter_
    THEN {"crashed", continuing}
    ELSE {continuing}

(***************************************************************************)
(* QOI15Encoder<internalShift>.  h_strategy, h_subs and h_snap observe the *)
(* run: the strategy each sample took, the sub-codewords pushed (kind and  *)
(* code), and previous / table after each sample.                          *)
(***************************************************************************)
\* the constructor with previous starting at 0
Encoder_New_zero(buffer, internalShift) ==
    [buffer |-> buffer, size |-> Len(buffer), shift |-> internalShift,
     i |-> 0, previous |-> 0, runLength |-> 0,
     table_ |-> Table_New, repository_ |-> Repo_New(Len(buffer)),
     h_strategy |-> <<>>, h_subs |-> <<>>, h_snap |-> <<>>]

\* uint16_t previous = 0xFFFF; auto runLength = 0; repository_(size)
Encoder_New(buffer, internalShift) ==
    [buffer |-> buffer, size |-> Len(buffer), shift |-> internalShift,
     i |-> 0, previous |-> Sentinel, runLength |-> 0,
     table_ |-> Table_New, repository_ |-> Repo_New(Len(buffer)),
     h_strategy |-> <<>>, h_subs |-> <<>>, h_snap |-> <<>>]

\* a run flush that keeps the counter
Encoder_PushRun_noreset(e, runValues) ==
    [e EXCEPT !.repository_ = Repo_SetSubs(@, runValues),
              !.h_subs = @ \o [k \in 1 .. Len(runValues) |-> <<"run", runValues[k]>>]]

Encoder_PushRun(e, runValues) ==
    [e EXCEPT !.repository_ = Repo_SetSubs(@, runValues),
              !.h_subs = @ \o [k \in 1 .. Len(runValues) |-> <<"run", runValues[k]>>],
              !.runLength = 0]

\* if (runLength != 0) { for (runValue : runLength_.Get(runLength)) repository_.Set(runValue); runLength = 0; }
Encoder_FlushRun(e) ==
    IF e.runLength # 0 THEN Encoder_PushRun(e, RunLength_Get(e.runLength)) ELSE e

\* the branches with the table hit tested before the difference
Encoder_Strategy_tablefirst(previous, current, ref) ==
    IF previous = current THEN "run"
    ELSE IF Table_Refer(ref, Table_Hash(current)) = current THEN "table"
    ELSE IF Differential_IsValid(Differential_Sub(previous, current)) THEN "diff"
    ELSE "raw"

\* the branch one loop iteration takes for current
Encoder_Strategy(previous, current, ref) ==
    IF previous = current THEN "run"
    ELSE IF Differential_IsValid(Differential_Sub(previous, current)) THEN "diff"
    ELSE IF Table_Refer(ref, Table_Hash(current)) = current THEN "table"
    ELSE "raw"

\* a sub-codeword push that also enters current into the table
Encoder_PushSub_insert(f, strategy, value, current) ==
    [f EXCEPT !.repository_ = Repo_SetSub(@, value),
              !.h_subs = Append(@, <<strategy, value>>),
              !.table_ = Table_Insert(@, Table_Hash(current), current),
              !.previous = current]

\* a sub-codeword goes to the repository; previous = current
Encoder_PushSub(f, strategy, value, current) ==
    [f EXCEPT !.repository_ = Repo_SetSub(@, value),
              !.h_subs = Append(@, <<strategy, value>>),
              !.previous = current]

\* table_.Insert(hash, current); repository_.Set(raw_.Get(current)); previous = current
Encoder_PushRaw(f, current) ==
    [f EXCEPT !.table_ = Table_Insert(@, Table_Hash(current), current),
              !.repository_ = Repo_SetWord(@, Raw15bit_Get(current)),
              !.previous = current]

\* the loop body after the run test, f being the encoder with a pending run flushed
Encoder_Branch(f, strategy, current) ==
    CASE strategy = "diff" ->
            Encoder_PushSub(f, strategy,
                            Differential_Get(Differential_Sub(f.previous, current)), current)
      [] strategy = "table" ->
            Encoder_PushSub(f, strategy, Table_Get(Table_Hash(current)), current)
      [] OTHER -> Encoder_PushRaw(f, current)

Encoder_Observe(g, strategy) ==
    [g EXCEPT !.i = @ + 1,
              !.h_strategy = Append(@, strategy),
              !.h_snap = Append(@, [previous |-> g.previous, table_ |-> g.table_])]

Encoder_Body(e, strategy, current) ==
    Encoder_Observe(IF strategy = "run"
                    THEN [e EXCEPT !.runLength = @ + 1]
                    ELSE Encoder_Branch(Encoder_FlushRun(e), strategy, current),
                    strategy)

Encoder_Current(e) == BitShifter_Get(e.shift, e.buffer[e.i + 1])

\* one iteration of for (i = 0; i < size; ++i)
Encoder_Iterate(e) ==
    Encoder_Body(e, Encoder_Strategy(e.previous, Encoder_Current(e), e.table_),
                 Encoder_Current(e))

Encoder_FlushRepository(f) == [f EXCEPT !.repository_ = Repo_Flush(@)]

\* after the loop: flush the run, then repository_.Flush()
Encoder_Finish(e) == Encoder_FlushRepository(Encoder_FlushRun(e))

(***************************************************************************)
(* QOI15Decoder (BitShifter<1>).  h_snap observes previous / table after   *)
(* each emitted sample.                                                    *)
(***************************************************************************)
DecoderShift == 1

Decoder_New(buffer, outputSize) ==
    [buffer |-> buffer, size |-> Len(buffer), outputSize |-> outputSize,
     counter |-> 0, previous |-> Sentinel, leftovers |-> <<>>,
     runLengthValues |-> <<>>, table_ |-> Table_New,
     repository_ |-> Repo_New(outputSize), h_snap |-> <<>>]

\* repository_.Set(bitShifter_.Set(sample)), observed with the registers that hold after it
Decoder_Emit(d, sample, previousAfter, tableAfter) ==
    [d EXCEPT !.repository_ = Repo_SetWord(@, BitShifter_Set(DecoderShift, sample)),
              !.h_snap = Append(@, [previous |-> previousAfter, table_ |-> tableAfter])]

\* for (i = 0; i < length; ++i) repository_.Set(bitShifter_.Set(previous)): the loop's
\* length emissions, each observed with the unchanged registers
Decoder_EmitRun(d, length) ==
    IF length <= 0 THEN d
    ELSE [d EXCEPT !.repository_ =
                       Repo_SetWordTimes(@, BitShifter_Set(DecoderShift, d.previous), length),
                   !.h_snap = @ \o [k \in 1 .. length |->
                                       [previous |-> d.previous, table_ |-> d.table_]]]

\* if (runLengthValues.size() > 0) { length = Set(runLengthValues); clear; emit length copies of previous }
Decoder_FlushRun(d) ==
    IF Len(d.runLengthValues) > 0
    THEN Decoder_EmitRun([d EXCEPT !.runLengthValues = <<>>], RunLength_Set(d.runLengthValues))
    ELSE d

\* emit current, then previous = current
Decoder_EmitCurrent(d, current) ==
    [Decoder_Emit(d, current, current, d.table_) EXCEPT !.previous = current]

\* the run test taking a zero digit as the end of the run
Decoder_RunCase_zeroends(d, value) ==
    IF RunLength_CheckHeader(value) /\ value # 0
    THEN [d EXCEPT !.runLengthValues = Append(@, value)]
    ELSE Decoder_FlushRun(d)

\* if (runLength_.CheckHeader(value)) runLengthValues.emplace_back(value); else flush the pending run
Decoder_RunCase(d, value) ==
    IF RunLength_CheckHeader(value)
    THEN [d EXCEPT !.runLengthValues = Append(@, value)]
    ELSE Decoder_FlushRun(d)

\* if (differential_.CheckHeader(value)) { current = Add(previous, Set(value)); emit }
Decoder_DiffCase(d, value) ==
    IF Differential_CheckHeader(value)
    THEN Decoder_EmitCurrent(d, Differential_Add(d.previous, Differential_Set(value)))
    ELSE d

\* if (table_.CheckHeader(value)) { current = Refer(Set(value)); emit }
Decoder_TableCase(d, value) ==
    IF Table_CheckHeader(value)
    THEN Decoder_EmitCurrent(d, Table_Refer(d.table_, Table_Set(value)))
    ELSE d

Decoder_Dispatch(d, value) ==
    Decoder_TableCase(Decoder_DiffCase(Decoder_RunCase(d, value), value), value)

\* the branch of the loop body that takes one sub-codeword from leftovers
Decoder_Leftover(d) ==
    Decoder_Dispatch([d EXCEPT !.leftovers = Tail(@)], Head(d.leftovers))

\* a literal that is emitted without being inserted into the table
Decoder_InsertEmit_noinsert(d, current) == Decoder_EmitCurrent(d, current)

\* table_.Insert(Hash(current), current); emit current; previous = current
Decoder_InsertEmit(d, current) ==
    Decoder_EmitCurrent([d EXCEPT !.table_ = Table_Insert(@, Table_Hash(current), current)],
                        current)

\* an unpack that drops the third field
Decoder_Unpack_two(d, c) == [d EXCEPT !.leftovers = @ \o <<c[1], c[2]>>]

\* leftovers.emplace_back(first); leftovers.emplace_back(second); leftovers.emplace_back(third)
Decoder_Unpack(d, c) == [d EXCEPT !.leftovers = @ \o <<c[1], c[2], c[3]>>]

Decoder_Classify(d, value) ==
    IF Raw15bit_IsValid(value)
    THEN Decoder_InsertEmit(Decoder_FlushRun(d), Raw15bit_Set(value))
    ELSE Decoder_Unpack(d, Chunker_Get(value))

\* the branch of the loop body that reads one word of the input
Decoder_Word(d) ==
    Decoder_Classify([d EXCEPT !.counter = @ + 1], d.buffer[d.counter + 1])

\* while (counter < size || leftovers.size() > 0)
Decoder_Running(d) == IF d.counter < d.size THEN TRUE ELSE Len(d.leftovers) > 0

Decoder_Iterate(d) ==
    IF Len(d.leftovers) > 0 THEN Decoder_Leftover(d) ELSE Decoder_Word(d)

\* the constructor returns normally after the final run flush; it has no error path
Decoder_Exit(d) == "done"

(***************************************************************************)
(* Actions.                                                                *)
(***************************************************************************)
EncodeSample ==
    /\ pc = "enc"
    /\ enc.i < enc.size
    /\ enc' = Encoder_Iterate(enc)
    /\ \E o \in Outcomes(enc.repository_, enc'.repository_, "enc") : pc' = o
    /\ UNCHANGED <<dec, repo, hist, rl, df>>

EncodeFinish ==
    /\ pc = "enc"
    /\ ~(enc.i < enc.size)
    /\ enc' = Encoder_Finish(enc)
    /\ \E o \in Outcomes(enc.repository_, enc'.repository_, "encoded") : pc' = o
    /\ UNCHANGED <<dec, repo, hist, rl, df>>

\* the caller copies the encoder's Get() into a vector and constructs the decoder
\* on it with the input's length as outputSize
StartDecode ==
    /\ pc = "encoded"
    /\ dec' = Decoder_New(SubSeq(enc.repository_.buffer_, 1, Repo_GetSize(enc.repository_)),
                          enc.size)
    /\ pc' = "dec"
    /\ UNCHANGED <<enc, repo, hist, rl, df>>

DecodeStep ==
    /\ pc = "dec"
    /\ Decoder_Running(dec)
    /\ dec' = Decoder_Iterate(dec)
    /\ \E o \in Outcomes(dec.repository_, dec'.repository_, "dec") : pc' = o
    /\ UNCHANGED <<enc, repo, hist, rl, df>>

DecodeFinish ==
    /\ pc = "dec"
    /\ ~Decoder_Running(dec)
    /\ dec' = Decoder_FlushRun(dec)
    /\ \E o \in Outcomes(dec.repository_, dec'.repository_, Decoder_Exit(dec')) : pc' = o
    /\ UNCHANGED <<enc, repo, hist, rl, df>>

(***************************************************************************)
(* Spec: every input of up to MaxN samples drawn from Samples16 is encoded *)
(* (internal shift 1 or 6) and the result decoded.                         *)
(***************************************************************************)
\* 0x0000, 0x0003, 0x0012, 0x0100, 0x0110, 0xFFFF
Samples16 == {0, 3, 18, 256, 272, 65535}
Shifts == {1, 6}
Inputs == UNION {[1 .. n -> Samples16] : n \in 0 .. MaxN}

RL_Idle == [pc |-> "idle", n |-> 0, values |-> <<>>, length |-> 0]
DF_Idle == [pc |-> "idle", previous |-> 0, current |-> 0, diff |-> 0, valid |-> FALSE,
            value |-> 0, back |-> 0, original |-> 0]

Init ==
    /\ pc = "enc"
    /\ \E buffer \in Inputs, s \in Shifts : enc = Encoder_New(buffer, s)
    /\ dec = Decoder_New(<<>>, 0)
    /\ repo = Repo_New(0)
    /\ hist = <<>>
    /\ rl = RL_Idle
    /\ df = DF_Idle

Next == EncodeSample \/ EncodeFinish \/ StartDecode \/ DecodeStep \/ DecodeFinish

Spec == Init /\ [][Next]_vars

\* the decoder's output: the samples written to its repository
Decoded == dec.repository_.buffer_
Encoded == enc.repository_.buffer_

\* C1: with internal shift 1, decoding the encoder's output with output size N yields
\* exactly N samples, sample i being Y[i] & 0xFFFE (so an input of even samples comes
\* back unchanged), and the decoder ends normally.
C1_RoundTrip ==
    (pc \in {"done", "crashed"} /\ enc.shift = 1) =>
        /\ pc = "done"
        /\ Repo_GetSize(dec.repository_) = enc.size
        /\ Len(Decoded) = enc.size
        /\ \A k \in 1 .. enc.size : Decoded[k] = BitAnd(enc.buffer[k], 65534)
        /\ (\A k \in 1 .. enc.size : enc.buffer[k] % 2 = 0) => Decoded = enc.buffer


\* C2: the encoder never writes more than N words into its N-word buffer, for any
\* internal shift: no write is out of bounds, and when every sample went out as a raw
\* literal the output has exactly N words.
C2_OutputBound ==
    /\ ~enc.repository_.oob
    /\ Repo_GetSize(enc.repository_) <= enc.size
    /\ Len(enc.repository_.buffer_) = Repo_GetSize(enc.repository_)
    /\ (pc # "enc" /\ \A k \in 1 .. enc.size : enc.h_strategy[k] = "raw")
          => Repo_GetSize(enc.repository_) = enc.size

\* the samples (after the downshift) that took the Raw strategy so far, in order
RECURSIVE RawCurrents(_)
RawCurrents(k) ==
    IF k = 0 THEN <<>>
    ELSE RawCurrents(k - 1) \o
         (IF enc.h_strategy[k] = "raw"
          THEN <<BitShifter_Get(enc.shift, enc.buffer[k])>> ELSE <<>>)

\* the fields of a packed word that came from a pushed sub-codeword, in order
SubFields(kind, fields) ==
    (IF kind[1] = "sub" THEN <<fields[1]>> ELSE <<>>)
    \o (IF kind[2] = "sub" THEN <<fields[2]>> ELSE <<>>)
    \o (IF kind[3] = "sub" THEN <<fields[3]>> ELSE <<>>)

\* those fields over the packed words among the first k written
RECURSIVE PackedSubs(_, _)
PackedSubs(r, k) ==
    IF k = 0 THEN <<>>
    ELSE PackedSubs(r, k - 1) \o
         (IF r.kinds[k] = <<"literal">> THEN <<>>
          ELSE SubFields(r.kinds[k], Chunker_Get(r.buffer_[k])))

PadsAreZero(kind, fields) ==
    \A j \in 1 .. 3 : fields[j] \in 0 .. 31 /\ (kind[j] = "pad" => fields[j] = 0)

\* C5: every word the encoder has written is a literal container (bit 15 set, low 15
\* bits the downshifted sample, one per Raw-strategy sample, in order) or a packed
\* container (bit 15 clear, three 5-bit fields, each a pushed RunLength / Table /
\* Differential sub-codeword under its own tag or a zero pad), and the decoder's test
\* (w & 0x8000) tells the two apart the way they were written.
C5_WordForms ==
    pc \in {"enc", "encoded"} =>
    LET raws == RawCurrents(enc.i)
        kinds == enc.repository_.kinds
    IN  /\ \A k \in 1 .. Len(Encoded) :
              /\ (kinds[k] = <<"literal">>) <=> Raw15bit_IsValid(Encoded[k])
              /\ kinds[k] # <<"literal">> =>
                    /\ Encoded[k] < 32768
                    /\ PadsAreZero(kinds[k], Chunker_Get(Encoded[k]))
        /\ SelectSeq(Encoded, Raw15bit_IsValid) = [k \in 1 .. Len(raws) |-> 32768 + raws[k]]
        /\ \A k \in 1 .. Len(raws) : raws[k] <= 32767
        /\ PackedSubs(enc.repository_, Len(Encoded)) \o enc.repository_.temp_
              = [k \in 1 .. Len(enc.h_subs) |-> enc.h_subs[k][2]]
        /\ \A k \in 1 .. Len(enc.h_subs) :
              /\ enc.h_subs[k][1] = "run" <=> enc.h_subs[k][2] \in 0 .. 7
              /\ enc.h_subs[k][1] = "table" <=> enc.h_subs[k][2] \in 8 .. 15
              /\ enc.h_subs[k][1] = "diff" <=> enc.h_subs[k][2] \in 16 .. 31

\* C6: after the decoder has emitted sample k its previous register and hash table
\* equal the encoder's after the encoder processed sample k, for every k.
C6_TableDeterminism ==
    /\ Len(dec.h_snap) <= Len(enc.h_snap)
    /\ \A k \in 1 .. Len(dec.h_snap) : dec.h_snap[k] = enc.h_snap[k]
    /\ (pc = "dec" /\ Len(dec.h_snap) > 0 /\ dec.runLengthValues = <<>>) =>
          /\ dec.previous = dec.h_snap[Len(dec.h_snap)].previous
          /\ dec.table_ = dec.h_snap[Len(dec.h_snap)].table_

\* C7 as stated: for the input [0x0100, 0x0110] the second sample is not sent as a
\* Differential sub-codeword (it falls through to Table / Raw), and both samples are
\* recovered.
C7_Original ==
    (pc = "done" /\ enc.shift = 1 /\ enc.buffer = <<256, 272>>) =>
        /\ enc.h_strategy[2] \in {"table", "raw"}
        /\ \A k \in 1 .. Len(enc.h_subs) : enc.h_subs[k][1] # "diff"
        /\ Decoded = enc.buffer

\* C7 amended: for the input [0x0100, 0x0110] the delta in 15-bit sample space is
\* 0x88 - 0x80 = 8, the Differential maximum, so the second sample is sent as the
\* Differential sub-codeword 0x1F; both samples are recovered.
C7_DifferentialBoundary ==
    (pc = "done" /\ enc.shift = 1 /\ enc.buffer = <<256, 272>>) =>
        /\ Differential_Sub(BitShifter_Get(1, 256), BitShifter_Get(1, 272)) = Diff_MaxValue
        /\ enc.h_strategy = <<"raw", "diff">>
        /\ enc.h_subs = << <<"diff", 31>> >>
        /\ Encoded = <<32768 + 128, 31>>
        /\ Decoded = enc.buffer

\* a raw, a Differential, a raw and a Table-hit sample, the first and last odd
C1_Witness ==
    /\ pc = "done"
    /\ enc.shift = 1
    /\ enc.buffer = <<3, 18, 272, 3>>
    /\ enc.h_strategy = <<"raw", "diff", "raw", "table">>
    /\ Decoded = <<2, 18, 272, 2>>

\* three samples, all raw literals, fill the three-word buffer
C2_Witness ==
    /\ pc = "encoded"
    /\ enc.size = 3
    /\ \A k \in 1 .. 3 : enc.h_strategy[k] = "raw"
    /\ Repo_GetSize(enc.repository_) = 3
    /\ enc.repository_.maxSize = 3

\* the encoder has written a literal and a zero-padded packed word
C5_Witness ==
    /\ pc = "encoded"
    /\ \E k \in 1 .. Len(Encoded) : enc.repository_.kinds[k] = <<"literal">>
    /\ \E k \in 1 .. Len(Encoded) : enc.repository_.kinds[k] = <<"sub", "pad", "pad">>
    /\ \E k \in 1 .. Len(enc.h_subs) : enc.h_subs[k][1] = "table"
    /\ \E k \in 1 .. Len(enc.h_subs) : enc.h_subs[k][1] = "diff"

\* the decoder has emitted four samples, one of them by a table hit
C6_Witness ==
    /\ pc = "done"
    /\ Len(dec.h_snap) = 4
    /\ \E k \in 1 .. 4 : enc.h_strategy[k] = "table"
    /\ \E k \in 1 .. 4 : enc.h_strategy[k] = "run"
    /\ dec.table_ # Table_New
    /\ dec.h_snap[4] = enc.h_snap[4]

C7_Witness ==
    /\ pc = "done"
    /\ enc.shift = 1
    /\ enc.buffer = <<256, 272>>
    /\ enc.h_strategy[2] = "diff"
    /\ Decoded = <<256, 272>>

(***************************************************************************)
(* SpecRun: the run-length test's input, 513 samples of 0xFFFE, encoded    *)
(* with the default internal shift and decoded.                            *)
(***************************************************************************)
RunSamples == 513
RunValue == 65534
DefaultShift == 1

InitRun ==
    /\ pc = "enc"
    /\ enc = Encoder_New([k \in 1 .. RunSamples |-> RunValue], DefaultShift)
    /\ dec = Decoder_New(<<>>, 0)
    /\ repo = Repo_New(0)
    /\ hist = <<>>
    /\ rl = RL_Idle
    /\ df = DF_Idle

SpecRun == InitRun /\ [][Next]_vars

\* C8 as stated: the 513 equal samples go out as exactly 4 RunLength sub-codewords
\* with the 3-bit values 1,0,0,1 (the base-8 digits of 513), and decode back.
C8_Original ==
    (pc = "done" /\ enc.size = RunSamples) =>
        /\ enc.h_subs = << <<"run", 1>>, <<"run", 0>>, <<"run", 0>>, <<"run", 1>> >>
        /\ Decoded = enc.buffer

\* C8 amended: the first of the 513 samples goes out as the literal 0xFFFF and the
\* other 512 as exactly 4 RunLength sub-codewords with the 3-bit values 0,0,0,1 (the
\* base-8 digits of 512, least significant first); the stream decodes back to the
\* 513 input samples.
C8_PureRun ==
    (pc \in {"encoded", "dec", "done", "crashed"} /\ enc.size = RunSamples) =>
        /\ enc.h_strategy = [k \in 1 .. RunSamples |-> IF k = 1 THEN "raw" ELSE "run"]
        /\ enc.h_subs = << <<"run", 0>>, <<"run", 0>>, <<"run", 0>>, <<"run", 1>> >>
        /\ Encoded = <<65535, Chunker_Set(0, 0, 0), Chunker_Set(1, 0, 0)>>
        /\ pc # "crashed"
        /\ pc = "done" => (Decoded = enc.buffer /\ Len(Decoded) = RunSamples)

C8_Witness ==
    /\ pc = "done"
    /\ enc.size = RunSamples
    /\ Len(enc.h_subs) = 4
    /\ Len(Decoded) = RunSamples

(***************************************************************************)
(* SpecRL: RunLength.Get applied to a length, then RunLength.Set to the    *)
(* list it returned.                                                       *)
(***************************************************************************)
InitRL ==
    /\ pc = "rl"
    /\ enc = Encoder_New(<<>>, DefaultShift)
    /\ dec = Decoder_New(<<>>, 0)
    /\ repo = Repo_New(0)
    /\ hist = <<>>
    /\ \E n \in 0 .. MaxRun : rl = [pc |-> "init", n |-> n, values |-> <<>>, length |-> 0]
    /\ df = DF_Idle

RunLengthGet ==
    /\ pc = "rl"
    /\ rl.pc = "init"
    /\ rl' = [rl EXCEPT !.values = RunLength_Get(rl.n), !.pc = "got"]
    /\ UNCHANGED <<pc, enc, dec, repo, hist, df>>

RunLengthSet ==
    /\ pc = "rl"
    /\ rl.pc = "got"
    /\ rl' = [rl EXCEPT !.length = RunLength_Set(rl.values), !.pc = "set"]
    /\ UNCHANGED <<pc, enc, dec, repo, hist, df>>

NextRL == RunLengthGet \/ RunLengthSet

SpecRL == InitRL /\ [][NextRL]_vars

\* the number of base-8 digits of n (0 for n = 0)
RECURSIVE Octits(_)
Octits(n) == IF n = 0 THEN 0 ELSE 1 + Octits(n \div 8)

\* C10: Get(n) is the list of the base-8 digits of n, least significant first, each a
\* 5-bit value with tag 00 that passes CheckHeader, empty for n = 0 and with a nonzero
\* last digit for n > 0; and Set(Get(n)) = n.
C10_RunLengthRoundTrip ==
    /\ rl.pc \in {"got", "set"} =>
          /\ Len(rl.values) = Octits(rl.n)
          /\ \A k \in 1 .. Len(rl.values) :
                /\ rl.values[k] = (rl.n \div (8 ^ (k - 1))) % 8
                /\ rl.values[k] \in 0 .. 31
                /\ rl.values[k] \div 8 = 0
                /\ RunLength_CheckHeader(rl.values[k])
          /\ rl.n = 0 => rl.values = <<>>
          /\ rl.n > 0 => rl.values[Len(rl.values)] # 0
    /\ rl.pc = "set" => rl.length = rl.n

C10_Witness ==
    /\ rl.pc = "set"
    /\ rl.n = 513
    /\ rl.values = <<1, 0, 0, 1>>
    /\ rl.length = 513

(***************************************************************************)
(* SpecRepo: a SpeedFirstRepository of the test's capacity under any       *)
(* sequence of up to MaxOps pushes and flushes; hist records them.         *)
(***************************************************************************)
RepoCapacity == 100
\* a Differential, a RunLength and a Table sub-codeword
SubValues == {31, 1, 8}
\* the test's word 0x7FFF and a literal container
WordValues == {32767, 32769}

InitRepo ==
    /\ pc = "repo"
    /\ enc = Encoder_New(<<>>, DefaultShift)
    /\ dec = Decoder_New(<<>>, 0)
    /\ repo = Repo_New(RepoCapacity)
    /\ hist = <<>>
    /\ rl = RL_Idle
    /\ df = DF_Idle

RepoSetSub ==
    /\ pc = "repo"
    /\ Len(hist) < MaxOps
    /\ \E v \in SubValues :
          /\ repo' = Repo_SetSub(repo, v)
          /\ hist' = Append(hist, <<"sub", v>>)
    /\ UNCHANGED <<pc, enc, dec, rl, df>>

RepoSetWord ==
    /\ pc = "repo"
    /\ Len(hist) < MaxOps
    /\ \E w \in WordValues :
          /\ repo' = Repo_SetWord(repo, w)
          /\ hist' = Append(hist, <<"word", w>>)
    /\ UNCHANGED <<pc, enc, dec, rl, df>>

RepoFlush ==
    /\ pc = "repo"
    /\ Len(hist) < MaxOps
    /\ repo' = Repo_Flush(repo)
    /\ hist' = Append(hist, <<"flush", 0>>)
    /\ UNCHANGED <<pc, enc, dec, rl, df>>

NextRepo == RepoSetSub \/ RepoSetWord \/ RepoFlush

SpecRepo == InitRepo /\ [][NextRepo]_vars

\* the packed words a list of pending sub-codewords must become: three per word, first
\* in bits 0..4, second in bits 5..9, third in bits 10..14, a last group of 1 or 2
\* filled with zeros; no word for an empty list
PackedWords(p) ==
    [j \in 1 .. ((Len(p) + 2) \div 3) |->
        p[3 * j - 2]
        + 32 * (IF 3 * j - 1 <= Len(p) THEN p[3 * j - 1] ELSE 0)
        + 1024 * (IF 3 * j <= Len(p) THEN p[3 * j] ELSE 0)]

\* what the first k operations of hist must leave: <<words written, sub-codewords pending>>
RECURSIVE ExpectedRepo(_)
ExpectedRepo(k) ==
    IF k = 0 THEN << <<>>, <<>> >>
    ELSE LET before == ExpectedRepo(k - 1)
             op == hist[k]
         IN  CASE op[1] = "sub"  -> <<before[1], Append(before[2], op[2])>>
               [] op[1] = "word" -> <<before[1] \o PackedWords(before[2]) \o <<op[2]>>, <<>>>>
               [] OTHER          -> <<before[1] \o PackedWords(before[2]), <<>>>>

\* C9: whatever the pushes and flushes, the words written are, in push order, each
\* literal preceded by the pending sub-codewords packed three per word (first in bits
\* 0..4, then 5..9, then 10..14, the last 1 or 2 zero-padded into one word); a Flush
\* with nothing pending writes nothing.
C9_PushOrder ==
    pc = "repo" =>
        /\ repo.buffer_ = ExpectedRepo(Len(hist))[1]
        /\ repo.temp_ = ExpectedRepo(Len(hist))[2]
        /\ repo.tempCounter_ = Len(repo.temp_)
        /\ Repo_GetSize(repo) = Len(repo.buffer_)
        /\ ~repo.oob

\* the repository test: two sub-codewords, a word, a flush
C9_Witness ==
    /\ pc = "repo"
    /\ hist = << <<"sub", 31>>, <<"sub", 31>>, <<"word", 32767>>, <<"flush", 0>> >>
    /\ repo.buffer_ = <<1023, 32767>>
    /\ Repo_GetSize(repo) = 2

(***************************************************************************)
(* SpecDec: the decoder on any stream of up to MaxWords words drawn from   *)
(* StreamWords, with any output size up to MaxWords.                       *)
(***************************************************************************)
\* 0x8005 (literal 5); 0x0018 (Differential +1, zero, zero); 0x0301 (RunLength 1,
\* Differential +1, zero); 0x000A (Table 2, zero, zero); 0x6038 (Differential +1,
\* RunLength 1, Differential +1)
StreamWords == {32773, 24, 769, 10, 24632}
Streams == UNION {[1 .. n -> StreamWords] : n \in 0 .. MaxWords}

InitDec ==
    /\ pc = "dec"
    /\ enc = Encoder_New(<<>>, DefaultShift)
    /\ \E buffer \in Streams, outputSize \in 0 .. MaxWords :
          dec = Decoder_New(buffer, outputSize)
    /\ repo = Repo_New(0)
    /\ hist = <<>>
    /\ rl = RL_Idle
    /\ df = DF_Idle

NextDec == DecodeStep \/ DecodeFinish

SpecDec == InitDec /\ [][NextDec]_vars

\* the decoder has stopped: it returned, reported an error, or died
DecoderStopped == pc \in {"done", "error", "crashed"}

\* C3: when the decoder's input is exhausted (every word read, every sub-codeword
\* drained, the last run expanded) with fewer than output_size samples emitted, the
\* decoder reports a fatal decode error.
C3_PrematureEnd ==
    (DecoderStopped /\ ~dec.repository_.oob
       /\ Repo_GetSize(dec.repository_) < dec.outputSize)
    => pc = "error"

\* C4: when the stream goes on after output_size samples are complete, the decoder
\* either ignores the rest (it is RunLength sub-codewords expanding to length 0) and
\* returns exactly output_size samples, or reports a fatal decode error.
C4_TrailingResidue ==
    (DecoderStopped /\ Repo_GetSize(dec.repository_) >= dec.outputSize)
    => \/ pc = "error"
       \/ /\ pc = "done"
          /\ Repo_GetSize(dec.repository_) = dec.outputSize
          /\ ~dec.repository_.oob

(***************************************************************************)
(* SpecDiff: Differential on a pair of 15-bit samples, as the test uses    *)
(* it: Sub and IsValid, Add, then Get and Set for a valid difference.      *)
(***************************************************************************)
\* 0x0000, 0x0005, 0x00FD, 0x0100 (the test's pair), 0x7FF8, 0x7FFF
Previous15 == {0, 5, 253, 256, 32760, 32767}
Currents15(previous) ==
    {c \in (previous - MaxDelta) .. (previous + MaxDelta) : c >= 0 /\ c <= LiteralMask}
        \cup Previous15

InitDiff ==
    /\ pc = "df"
    /\ enc = Encoder_New(<<>>, DefaultShift)
    /\ dec = Decoder_New(<<>>, 0)
    /\ repo = Repo_New(0)
    /\ hist = <<>>
    /\ rl = RL_Idle
    /\ \E previous \in Previous15 : \E current \in Currents15(previous) :
          df = [DF_Idle EXCEPT !.pc = "init", !.previous = previous, !.current = current]

DifferentialSub ==
    /\ pc = "df"
    /\ df.pc = "init"
    /\ df' = [df EXCEPT !.diff = Differential_Sub(df.previous, df.current),
                        !.valid = Differential_IsValid(Differential_Sub(df.previous, df.current)),
                        !.pc = "sub"]
    /\ UNCHANGED <<pc, enc, dec, repo, hist, rl>>

DifferentialAdd ==
    /\ pc = "df"
    /\ df.pc = "sub"
    /\ df' = [df EXCEPT !.original = Differential_Add(df.previous, df.diff), !.pc = "added"]
    /\ UNCHANGED <<pc, enc, dec, repo, hist, rl>>

DifferentialGet ==
    /\ pc = "df"
    /\ df.pc = "added"
    /\ df.valid
    /\ df' = [df EXCEPT !.value = Differential_Get(df.diff), !.pc = "got"]
    /\ UNCHANGED <<pc, enc, dec, repo, hist, rl>>

DifferentialSet ==
    /\ pc = "df"
    /\ df.pc = "got"
    /\ df' = [df EXCEPT !.back = Differential_Set(df.value), !.pc = "set"]
    /\ UNCHANGED <<pc, enc, dec, repo, hist, rl>>

NextDiff == DifferentialSub \/ DifferentialAdd \/ DifferentialGet \/ DifferentialSet

SpecDiff == InitDiff /\ [][NextDiff]_vars

\* C11: IsValid(d) holds exactly for d in -8..-1 and 1..8; for a valid d, Get(d) is a
\* 5-bit value with bit 4 set that passes CheckHeader, no other valid difference has
\* the same code, and Set(Get(d)) = d; and Add(p, Sub(p, c)) = c for 15-bit p and c.
C11_DifferentialLaws ==
    /\ df.pc \in {"sub", "added", "got", "set"} =>
          /\ df.diff = df.current - df.previous
          /\ df.valid <=> (df.diff \in (-8) .. (-1) \/ df.diff \in 1 .. 8)
    /\ df.pc \in {"added", "got", "set"} => df.original = df.current
    /\ df.pc \in {"got", "set"} =>
          /\ df.value \in 16 .. 31
          /\ Differential_CheckHeader(df.value)
          /\ \A d \in (-MaxDelta) .. MaxDelta :
                (Differential_IsValid(d) /\ d # df.diff) => Differential_Get(d) # df.value
    /\ df.pc = "set" => df.back = df.diff

\* the test's pair: 0x0100 and 0x0100 - 3 give -3, the code 0x15, and back
C11_Witness ==
    /\ df.pc = "set"
    /\ df.previous = 256
    /\ df.current = 253
    /\ df.diff = -3
    /\ df.value = 21
    /\ df.back = -3
    /\ df.original = 253

(***************************************************************************)
(* The encoder's choice of strategy, sample by sample, under Spec.         *)
(***************************************************************************)
\* previous and the table as they were when the encoder took up sample k
SnapBefore(k) ==
    IF k = 1 THEN [previous |-> Sentinel, table_ |-> Table_New] ELSE enc.h_snap[k - 1]

\* sample k after the downshift
CurrentAt(k) == enc.buffer[k] \div (2 ^ enc.shift)

\* how many of the first n elements of a sequence satisfy Test
CountOf(seq, n, Test(_)) == Cardinality({k \in 1 .. n : Test(seq[k])})

IsDiffSub(sub) == sub[1] = "diff"
IsTableSub(sub) == sub[1] = "table"
IsDiffStrategy(strategy) == strategy = "diff"
IsTableStrategy(strategy) == strategy = "table"
IsRawStrategy(strategy) == strategy = "raw"
IsLiteralKind(kind) == kind = <<"literal">>

\* C12: a sample whose downshifted value differs from previous takes exactly one
\* strategy, by fixed priority: Differential if 1 <= |current - previous| <= 8 (even
\* when the table also holds current), else Table if table[(current >> 1) & 7] =
\* current, else Raw; one codeword goes out for it and previous becomes current.
C12_StrategyPriority ==
    /\ \A k \in 1 .. enc.i :
          LET before == SnapBefore(k)
              current == CurrentAt(k)
              delta == current - before.previous
              hit == before.table_[(current \div 2) % 8] = current
          IN  current # before.previous =>
                 /\ enc.h_strategy[k] =
                       (IF delta # 0 /\ delta >= -8 /\ delta <= 8 THEN "diff"
                        ELSE IF hit THEN "table" ELSE "raw")
                 /\ enc.h_snap[k].previous = current
    /\ CountOf(enc.h_subs, Len(enc.h_subs), IsDiffSub)
          = CountOf(enc.h_strategy, enc.i, IsDiffStrategy)
    /\ CountOf(enc.h_subs, Len(enc.h_subs), IsTableSub)
          = CountOf(enc.h_strategy, enc.i, IsTableStrategy)
    /\ CountOf(enc.repository_.kinds, Len(enc.repository_.kinds), IsLiteralKind)
          = CountOf(enc.h_strategy, enc.i, IsRawStrategy)

\* 0x0100, 0x0110, 0x0100: the third sample is 8 below previous and also in the table
C12_Witness ==
    /\ pc = "encoded"
    /\ enc.shift = 1
    /\ enc.buffer = <<256, 272, 256, 3>>
    /\ enc.h_strategy = <<"raw", "diff", "diff", "raw">>
    /\ enc.h_snap[2].table_[0] = 128
    /\ enc.h_snap[3].previous = 128

(***************************************************************************)
(* When the repository packs, under SpecRepo.                              *)
(***************************************************************************)
\* the last of the first k operations that was not a sub-codeword push (0 if none)
RECURSIVE LastFlush(_)
LastFlush(k) ==
    IF k = 0 THEN 0 ELSE IF hist[k][1] # "sub" THEN k ELSE LastFlush(k - 1)

\* the number of words the first k operations must have written when packing is
\* left to Flush: a flush or a literal writes one word per three pending
\* sub-codewords, rounded up, and a literal one more
RECURSIVE WordsAfter(_)
WordsAfter(k) ==
    IF k = 0 THEN 0
    ELSE IF hist[k][1] = "sub" THEN WordsAfter(k - 1)
    ELSE WordsAfter(k - 1) + ((k - 1 - LastFlush(k - 1)) + 2) \div 3
         + (IF hist[k][1] = "word" THEN 1 ELSE 0)

\* C13 as stated: after any sub-codeword push fewer than three sub-codewords are
\* pending, and one word has been written for every complete triple pushed since the
\* last flush.
C13_Original ==
    (pc = "repo" /\ Len(hist) > 0 /\ hist[Len(hist)][1] = "sub") =>
        /\ repo.tempCounter_ < 3
        /\ Repo_GetSize(repo)
              = WordsAfter(LastFlush(Len(hist))) + (Len(hist) - LastFlush(Len(hist))) \div 3

\* C13 amended: a sub-codeword push only queues: it writes no word, and every
\* sub-codeword pushed since the last flush or literal is still pending, three or more
\* included.  Packing happens in Flush (which a literal push calls first when anything
\* is pending): it writes one word per three pending sub-codewords, rounded up, and
\* leaves nothing pending.
C13_DeferredPacking ==
    pc = "repo" =>
        /\ repo.tempCounter_ = Len(hist) - LastFlush(Len(hist))
        /\ Len(repo.temp_) = repo.tempCounter_
        /\ Repo_GetSize(repo) = WordsAfter(Len(hist))
        /\ (Len(hist) > 0 /\ hist[Len(hist)][1] = "sub") =>
              Repo_GetSize(repo) = WordsAfter(Len(hist) - 1)
        /\ (Len(hist) > 0 /\ hist[Len(hist)][1] # "sub") => repo.tempCounter_ = 0

\* four sub-codewords pushed and pending, then flushed into two words
C13_Witness ==
    /\ pc = "repo"
    /\ Len(hist) = 5
    /\ \A k \in 1 .. 4 : hist[k][1] = "sub"
    /\ hist[5][1] = "flush"
    /\ repo.tempCounter_ = 0
    /\ Repo_GetSize(repo) = 2
    /\ WordsAfter(4) = 0

(***************************************************************************)
(* Padding, as the decoder meets it in the encoder's stream, under Spec.   *)
(***************************************************************************)
\* where the field at the head of leftovers came from: field 4 - |leftovers| of the
\* word read last
HeadKind == enc.repository_.kinds[dec.counter][4 - Len(dec.leftovers)]

\* the decoder is about to take a zero that Flush padded in
AtPad == pc = "dec" /\ Len(dec.leftovers) > 0 /\ HeadKind = "pad"

\* the decoder is about to read a literal container
AtLiteral ==
    /\ pc = "dec"
    /\ Len(dec.leftovers) = 0
    /\ dec.counter < dec.size
    /\ Raw15bit_IsValid(dec.buffer[dec.counter + 1])

\* C14: a zero that Flush padded into a packed container never makes the decoder
\* emit: the decoder takes it as a RunLength digit 0, which leaves the length of the
\* pending run as it was (0 when none is pending), writes nothing and keeps previous;
\* only pads follow it in its word, and what comes next is a literal or the end of the
\* input, each of which clears the pending digits before any later run's digits.
C14_PaddingInert ==
    [][ /\ AtPad =>
             /\ Head(dec.leftovers) = 0
             /\ dec'.runLengthValues = Append(dec.runLengthValues, 0)
             /\ RunLength_Set(dec'.runLengthValues) = RunLength_Set(dec.runLengthValues)
             /\ (dec.runLengthValues = <<>> => RunLength_Set(dec'.runLengthValues) = 0)
             /\ dec'.repository_ = dec.repository_
             /\ dec'.previous = dec.previous
             /\ \A j \in (4 - Len(dec.leftovers)) .. 3 :
                   enc.repository_.kinds[dec.counter][j] = "pad"
             /\ dec.counter < dec.size => Raw15bit_IsValid(dec.buffer[dec.counter + 1])
        /\ AtLiteral => dec'.runLengthValues = <<>>
        /\ (pc = "dec" /\ ~Decoder_Running(dec)) => dec'.runLengthValues = <<>>
      ]_vars

\* the decoder has taken the two pads behind the digit of a run of one, before a literal
C14_Witness ==
    /\ pc = "dec"
    /\ Len(dec.leftovers) = 0
    /\ dec.counter > 0
    /\ dec.counter < dec.size
    /\ enc.repository_.kinds[dec.counter] = <<"sub", "pad", "pad">>
    /\ dec.runLengthValues = <<1, 0, 0>>

(***************************************************************************)
(* Who writes the hash table, under Spec.                                  *)
(***************************************************************************)
\* the table with current entered at (current >> 1) & 7, every other entry kept
WithEntry(table, current) ==
    [h \in 0 .. 7 |-> IF h = (current \div 2) % 8 THEN current ELSE table[h]]

\* C15: the hash table changes only when a raw literal is emitted (encoder) or
\* consumed (decoder), and then only at index (current >> 1) & 7; a run sample, a
\* Differential sample, a Table-hit sample, a sub-codeword and the final flushes
\* leave all 8 entries as they were, on both sides.
C15_TableFrame ==
    [][ /\ (pc = "enc" /\ enc.i < enc.size) =>
              enc'.table_ = (IF enc'.h_strategy[enc.i + 1] = "raw"
                             THEN WithEntry(enc.table_, CurrentAt(enc.i + 1))
                             ELSE enc.table_)
        /\ (pc = "enc" /\ ~(enc.i < enc.size)) => enc'.table_ = enc.table_
        /\ pc = "dec" =>
              dec'.table_ = (IF AtLiteral
                             THEN WithEntry(dec.table_, dec.buffer[dec.counter + 1] % 32768)
                             ELSE dec.table_)
        /\ DOMAIN enc'.table_ = 0 .. 7
        /\ DOMAIN dec'.table_ = 0 .. 7
      ]_vars

\* 0x0000 and 0x0012 went out raw, then 0x0000 as a table hit and once more as a run:
\* both tables hold exactly the two literals
C15_Witness ==
    /\ pc = "done"
    /\ enc.shift = 1
    /\ enc.h_strategy = <<"raw", "raw", "table", "run">>
    /\ enc.buffer = <<0, 18, 0, 0>>
    /\ enc.table_ = [h \in 0 .. 7 |-> IF h = 0 THEN 0 ELSE IF h = 4 THEN 9 ELSE Sentinel]
    /\ dec.table_ = enc.table_

(***************************************************************************)
(* SpecField: the decoder on a literal followed by one packed container    *)
(* whose first two fields are any 5-bit values, with any output size up to *)
(* MaxWords.                                                               *)
(***************************************************************************)
FieldValues == 0 .. FieldMask
\* a zero, a Table and a Differential sub-codeword
ThirdValues == {0, 9, 17}
FieldStreams ==
    {<<32773, Chunker_Set(first, second, third)>> :
        first \in FieldValues, second \in FieldValues, third \in ThirdValues}

InitField ==
    /\ pc = "dec"
    /\ enc = Encoder_New(<<>>, DefaultShift)
    /\ \E buffer \in FieldStreams, outputSize \in 0 .. MaxWords :
          dec = Decoder_New(buffer, outputSize)
    /\ repo = Repo_New(0)
    /\ hist = <<>>
    /\ rl = RL_Idle
    /\ df = DF_Idle

SpecField == InitField /\ [][NextDec]_vars

\* the CheckHeader tests a 5-bit value passes
HeadersPassed(value) ==
    (IF RunLength_CheckHeader(value) THEN {"run"} ELSE {})
    \cup (IF Table_CheckHeader(value) THEN {"table"} ELSE {})
    \cup (IF Differential_CheckHeader(value) THEN {"diff"} ELSE {})

\* the tag a 5-bit value carries: 00xxx RunLength, 01xxx Table, 1xxxx Differential
TagOf(value) == IF value < 8 THEN "run" ELSE IF value < 16 THEN "table" ELSE "diff"

\* the samples a decoder step has written
Written(before, after) == Len(after.repository_.buffer_) - Len(before.repository_.buffer_)

\* C16: every 5-bit value passes exactly one of RunLength.CheckHeader (00xxx),
\* Table.CheckHeader (01xxx) and Differential.CheckHeader (1xxxx), so the decoder
\* takes each unpacked sub-codeword down exactly one branch: a RunLength digit only
\* extends the pending run and writes nothing; a Differential or Table sub-codeword
\* ends the pending run and writes that run and exactly one sample of its own.
C16_TagPartition ==
    [][ /\ \A value \in 0 .. 31 : HeadersPassed(value) = {TagOf(value)}
        /\ (pc = "dec" /\ Len(dec.leftovers) > 0) =>
              LET value == Head(dec.leftovers)
                  pending == RunLength_Set(dec.runLengthValues)
              IN  /\ TagOf(value) = "run" =>
                        /\ dec'.runLengthValues = Append(dec.runLengthValues, value)
                        /\ Written(dec, dec') = 0
                        /\ dec'.previous = dec.previous
                  /\ TagOf(value) = "diff" =>
                        /\ dec'.runLengthValues = <<>>
                        /\ Written(dec, dec') = pending + 1
                        /\ dec'.previous = (dec.previous + Differential_Set(value)) % 65536
                  /\ TagOf(value) = "table" =>
                        /\ dec'.runLengthValues = <<>>
                        /\ Written(dec, dec') = pending + 1
                        /\ dec'.previous = dec.table_[value - 8]
      ]_vars

\* after the literal 5: a RunLength digit 1 and a Differential +1 have been taken (one
\* copy of 5, then 6), a Table sub-codeword is next
C16_Witness ==
    /\ pc = "dec"
    /\ dec.buffer = <<32773, Chunker_Set(1, 24, 9)>>
    /\ dec.leftovers = <<9>>
    /\ dec.runLengthValues = <<>>
    /\ dec.previous = 6
    /\ Len(dec.repository_.buffer_) = 3

(***************************************************************************)
(* SpecRuns: inputs made of up to MaxSegments stretches of equal samples,  *)
(* each one sample or ten samples long, encoded with the default shift and *)
(* decoded.                                                                *)
(***************************************************************************)
\* 0x0000, 0x0002 and 0x1000 from the codec test, and 0x0012
SegValues == {0, 2, 18, 4096}
SegCounts == {1, 10}

RECURSIVE Expand(_)
Expand(segments) ==
    IF segments = <<>> THEN <<>>
    ELSE [k \in 1 .. Head(segments)[2] |-> Head(segments)[1]] \o Expand(Tail(segments))

RunInputs ==
    {Expand(segments) :
        segments \in UNION {[1 .. n -> SegValues \X SegCounts] : n \in 1 .. MaxSegments}}

InitRuns ==
    /\ pc = "enc"
    /\ \E buffer \in RunInputs : enc = Encoder_New(buffer, DefaultShift)
    /\ dec = Decoder_New(<<>>, 0)
    /\ repo = Repo_New(0)
    /\ hist = <<>>
    /\ rl = RL_Idle
    /\ df = DF_Idle

SpecRuns == InitRuns /\ [][Next]_vars

\* the RunLength sub-codewords of a run counter: its base-8 digits, least significant
\* first, none for 0
RunDigits(count) ==
    [k \in 1 .. Octits(count) |-> <<"run", (count \div (8 ^ (k - 1))) % 8>>]

\* the sub-codewords the encoder pushed in a step
Pushed(before, after) == SubSeq(after.h_subs, Len(before.h_subs) + 1, Len(after.h_subs))

\* the decoder is at a step that ends a pending run: a Table or Differential
\* sub-codeword, a literal, or the end of the input
EndsRun ==
    IF Len(dec.leftovers) > 0 THEN Head(dec.leftovers) >= 8
    ELSE IF dec.counter < dec.size THEN Raw15bit_IsValid(dec.buffer[dec.counter + 1])
    ELSE TRUE

\* C17: the encoder pushes RunLength sub-codewords only for a run counter > 0 (the
\* counter's digits, counting samples equal to previous), in the step of the differing
\* sample that ends the run and before that sample's own codeword, or at end of
\* input; the counter is 0 afterwards and a run sample changes nothing but the
\* counter.  Every non-run sample pushes its own Differential, Table or literal
\* codeword after the digits, so the digits of two runs never meet.  The decoder
\* writes the decoded length L as L copies of its previous before the sample of the
\* codeword that ended the run.
C17_RunEmission ==
    [][ /\ (pc = "enc" /\ enc.i < enc.size) =>
              IF enc'.h_strategy[enc.i + 1] = "run"
              THEN /\ enc'.runLength = enc.runLength + 1
                   /\ enc'.h_subs = enc.h_subs
                   /\ enc'.repository_ = enc.repository_
                   /\ enc'.previous = enc.previous
              ELSE /\ enc'.runLength = 0
                   /\ \A k \in (enc.i - enc.runLength + 1) .. enc.i :
                         CurrentAt(k) = enc.previous
                   /\ SubSeq(Pushed(enc, enc'), 1, Octits(enc.runLength))
                         = RunDigits(enc.runLength)
                   /\ IF enc'.h_strategy[enc.i + 1] = "raw"
                      THEN /\ Len(Pushed(enc, enc')) = Octits(enc.runLength)
                           /\ enc'.repository_.temp_ = <<>>
                           /\ enc'.repository_.buffer_[Len(enc'.repository_.buffer_)]
                                 = 32768 + CurrentAt(enc.i + 1)
                      ELSE /\ Len(Pushed(enc, enc')) = Octits(enc.runLength) + 1
                           /\ enc'.h_subs[Len(enc'.h_subs)][1] = enc'.h_strategy[enc.i + 1]
        /\ (pc = "enc" /\ ~(enc.i < enc.size)) =>
              /\ Pushed(enc, enc') = RunDigits(enc.runLength)
              /\ enc'.runLength = 0
              /\ enc'.previous = enc.previous
        /\ (pc = "dec" /\ EndsRun) =>
              LET L == RunLength_Set(dec.runLengthValues)
                  out == dec.repository_.buffer_
              IN  /\ Written(dec, dec') = L + (IF Decoder_Running(dec) THEN 1 ELSE 0)
                  /\ \A k \in 1 .. L :
                        dec'.repository_.buffer_[Len(out) + k] = (2 * dec.previous) % 65536
                  /\ dec'.runLengthValues = <<>>
      ]_vars

\* ten samples 0x0000 then ten samples 0x1000: a literal, a run of nine, a literal, a
\* run of nine, decoded back
C17_Witness ==
    /\ pc = "done"
    /\ enc.size = 20
    /\ enc.h_subs = << <<"run", 1>>, <<"run", 1>>, <<"run", 1>>, <<"run", 1>> >>
    /\ Encoded = <<32768, Chunker_Set(1, 1, 0), 32768 + 2048, Chunker_Set(1, 1, 0)>>
    /\ Decoded = enc.buffer

(***************************************************************************)
(* The first sample, under Spec.                                           *)
(***************************************************************************)
\* C18: the first sample of a non-empty input is never counted into a run, never a
\* Differential and never a Table hit: it goes out raw, and the first output word is
\* the literal container 0x8000 | (sample[0] >> shift), the downshifted sample being
\* at most 0x7FFF while previous and every table entry start at 0xFFFF.
C18_FirstLiteral ==
    enc.i >= 1 =>
        /\ CurrentAt(1) <= 32767
        /\ enc.h_strategy[1] = "raw"
        /\ enc.repository_.kinds[1] = <<"literal">>
        /\ Encoded[1] = 32768 + CurrentAt(1)
        /\ enc.h_snap[1].previous = CurrentAt(1)
        /\ enc.h_snap[1].table_ = WithEntry(Table_New, CurrentAt(1))
        /\ (enc.i = 1 /\ pc = "enc") =>
              (enc.runLength = 0 /\ enc.h_subs = <<>> /\ Len(Encoded) = 1)

\* the largest sample, 0xFFFF, first: downshifted by 1 it is 0x7FFF and goes out as 0xFFFF
C18_Witness ==
    /\ pc = "enc"
    /\ enc.i = 1
    /\ enc.shift = 1
    /\ enc.buffer[1] = 65535
    /\ Encoded = <<65535>>
    /\ enc.previous = 32767

(***************************************************************************)
(* The sentinel on the decoder's side, under Spec.                         *)
(***************************************************************************)
\* the decoder is about to take a Table sub-codeword (01xxx)
AtTableSub ==
    /\ pc = "dec"
    /\ Len(dec.leftovers) > 0
    /\ Head(dec.leftovers) \in 8 .. 15

\* C19: in a stream the encoder produced, the entry a Table sub-codeword names never
\* holds the sentinel 0xFFFF when the decoder refers to it: it holds a 15-bit sample
\* that an earlier literal of the stream entered at that index.  So no emitted
\* sample comes from the sentinel, and previous is never 0xFFFF once a sample has
\* been emitted, on either side.
C19_NoSentinelRead ==
    /\ AtTableSub =>
          LET index == Head(dec.leftovers) - 8
              entry == dec.table_[index]
          IN  /\ entry # Sentinel
              /\ entry <= 32767
              /\ (entry \div 2) % 8 = index
              /\ \E k \in 1 .. dec.counter : dec.buffer[k] = 32768 + entry
    /\ Len(dec.h_snap) >= 1 =>
          /\ dec.previous # Sentinel
          /\ \A k \in 1 .. Len(dec.h_snap) : dec.h_snap[k].previous <= 32767
    /\ enc.i >= 1 => enc.previous <= 32767

\* after the literals 0 and 9 the decoder meets the Table sub-codeword for entry 0,
\* which holds the sample 0
C19_Witness ==
    /\ AtTableSub
    /\ Head(dec.leftovers) = 8
    /\ dec.table_[0] = 0
    /\ dec.table_[4] = 9
    /\ dec.previous = 9

(***************************************************************************)
(* SpecDecLive: SpecDec with the decoder's loop running on: the            *)
(* constructor is sequential code, so a step that can be taken is taken.   *)
(***************************************************************************)
SpecDecLive == InitDec /\ [][NextDec]_vars /\ WF_vars(NextDec)

\* what is left for the loop to do: four per unread word, one per leftover
LoopMeasure(d) == 4 * (d.size - d.counter) + Len(d.leftovers)

\* one iteration of the decoder's loop, or its exit
LoopStep ==
    /\ (pc = "dec" /\ Decoder_Running(dec)) =>
          /\ IF Len(dec.leftovers) > 0
             THEN /\ dec'.leftovers = Tail(dec.leftovers)
                  /\ dec'.counter = dec.counter
             ELSE /\ dec'.counter = dec.counter + 1
                  /\ IF dec.buffer[dec.counter + 1] >= 32768
                     THEN dec'.leftovers = <<>>
                     ELSE /\ Len(dec'.leftovers) = 3
                          /\ dec.buffer[dec.counter + 1]
                                = dec'.leftovers[1] + 32 * dec'.leftovers[2]
                                  + 1024 * dec'.leftovers[3]
          /\ dec'.counter <= dec.size
          /\ LoopMeasure(dec') < LoopMeasure(dec)
          /\ LoopMeasure(dec') >= 0
    /\ (pc = "dec" /\ ~Decoder_Running(dec)) =>
          /\ pc' # "dec"
          /\ dec'.counter = dec.size
          /\ dec'.leftovers = <<>>

\* C20: on every finite codeword stream, encoder-produced or not, the decoder's main
\* loop terminates: each iteration removes one sub-codeword from leftovers or, only
\* when leftovers is empty, consumes one input word; a packed word adds exactly its
\* three fields to leftovers, a literal none; so the work left shrinks with every
\* iteration and the loop is eventually left.
C20_DecoderTerminates ==
    /\ [][LoopStep]_vars
    /\ <>(pc # "dec")

\* a literal and two packed words have been consumed, their six fields drained, and
\* the loop left
C20_Witness ==
    /\ pc \in {"done", "crashed"}
    /\ dec.buffer = <<32773, 24632, 769>>
    /\ dec.counter = 3
    /\ dec.leftovers = <<>>
    /\ Len(dec.repository_.buffer_) >= 4

====
